---- MODULE Spec2Model ----
(***************************************************************************)
(* A model of rust-keylime's src/common.rs: the configuration resolver     *)
(* (config_file_get, config_get, config_get_env, KeylimeConfig::build),    *)
(* get_uuid, SymmKey (try_from, xor) and TpmData (load, store, valid).     *)
(*                                                                         *)
(* Strings are sequences of one-character strings, so that to_lowercase,   *)
(* bool::from_str, u32 parsing, Uuid::parse_str and Path::join are         *)
(* computed character by character.  Section, key and environment-variable *)
(* names are literals in the source and are kept as TLA+ strings.          *)
(***************************************************************************)
EXTENDS Integers, Sequences, FiniteSets, TLC

VARIABLES
    envp,       \* the process environment: variable name -> Option<String>
    ini_files,  \* the configuration files on disk: path -> file state
    tpm_files,  \* the identity-record files on disk: path -> file state
    nedits,     \* how many changes were made to the environment and the disk
    ret,        \* the last call made and what it returned
    keyA,       \* a SymmKey held by the caller (Option<SymmKey>)
    keyB,       \* a second SymmKey held by the caller (Option<SymmKey>)
    rec,        \* a TpmData record held by the caller (Option<TpmData>)
    stored      \* history: per path, the record the last write stored there, and
                \* whether that write replaced another stored record

vars == <<envp, ini_files, tpm_files, nedits, ret, keyA, keyB, rec, stored>>

(***************************************************************************)
(* Option and Result                                                       *)
(***************************************************************************)
None == <<>>
Some(v) == <<v>>
IsSome(o) == Len(o) = 1
Unwrap(o) == o[1]

Ok(v) == [ok |-> TRUE, val |-> v]
Err(e) == [ok |-> FALSE, err |-> e]

(***************************************************************************)
(* String constants of the source                                          *)
(***************************************************************************)
DEFAULT_CONFIG == <<"/", "e", "t", "c", "/", "k", "e", "y", "l", "i", "m", "e", ".", "c", "o", "n", "f">>
WORK_DIR == <<"/", "v", "a", "r", "/", "l", "i", "b", "/", "k", "e", "y", "l", "i", "m", "e">>
TPM_DATA == <<"t", "p", "m", "d", "a", "t", "a", ".", "j", "s", "o", "n">>
DEFAULT_CA_PATH == <<"c", "v", "_", "c", "a", "/", "c", "a", "c", "e", "r", "t", ".", "c", "r", "t">>
REV_ACTIONS_DIR == <<"/", "u", "s", "r", "/", "l", "i", "b", "e", "x", "e", "c", "/", "k", "e", "y", "l", "i", "m", "e">>
REV_ACTIONS == <<>>
ALLOW_PAYLOAD_REV_ACTIONS == TRUE
ALLOW_INSECURE_PAYLOAD == FALSE
MTLS_ENABLED == TRUE
S_default == <<"d", "e", "f", "a", "u", "l", "t">>
S_openstack == <<"o", "p", "e", "n", "s", "t", "a", "c", "k">>
S_hash_ek == <<"h", "a", "s", "h", "_", "e", "k">>
S_generate == <<"g", "e", "n", "e", "r", "a", "t", "e">>
S_true == <<"t", "r", "u", "e">>
S_false == <<"f", "a", "l", "s", "e">>

(***************************************************************************)
(* Values the environment and the files are filled with                    *)
(***************************************************************************)
V_Empty == <<>>
V_TestingConf == <<"/", "t", "m", "p", "/", "t", "e", "s", "t", "i", "n", "g", ".", "c", "o", "n", "f">>
V_MissingConf == <<"/", "n", "o", "n", "e", "x", "i", "s", "t", "e", "n", "t", ".", "c", "o", "n", "f">>
V_Ip1 == <<"1", "2", "7", ".", "0", ".", "0", ".", "1">>
V_Ip2 == <<"1", "0", ".", "0", ".", "0", ".", "5">>
V_Port1 == <<"9", "0", "0", "2">>
V_Port2 == <<"8", "8", "9", "0">>
V_BadPort == <<"9", "0", "x", "2">>
V_True == <<"T", "r", "u", "e">>
V_FALSE == <<"F", "A", "L", "S", "E">>
V_Yes == <<"y", "e", "s">>
V_Sha256 == <<"s", "h", "a", "2", "5", "6">>
V_Sha1 == <<"s", "h", "a", "1">>
V_Rsa == <<"r", "s", "a">>
V_Ecc == <<"e", "c", "c">>
V_RsaSsa == <<"r", "s", "a", "s", "s", "a">>
V_Ecdsa == <<"e", "c", "d", "s", "a">>
V_Md5 == <<"m", "d", "5">>
V_DirTmp == <<"/", "t", "m", "p", "/", "k", "l">>
V_DirSlash == <<"/", "o", "p", "t", "/", "k", "l", "/">>
V_CaFile == <<"/", "e", "t", "c", "/", "c", "a", ".", "c", "r", "t">>
V_CaDefaultCaps == <<"D", "e", "f", "a", "u", "l", "t">>
V_Size == <<"1", "m">>
V_Script == <<"a", "u", "t", "o", "r", "u", "n", ".", "s", "h">>
V_Payload == <<"d", "e", "c", "r", "y", "p", "t", "e", "d", "_", "p", "a", "y", "l", "o", "a", "d">>
V_KeyName == <<"d", "e", "r", "i", "v", "e", "d", "_", "t", "c", "i", "_", "k", "e", "y">>
V_Actions == <<"a", ".", "p", "y">>
V_UuidUpper == <<"D", "4", "3", "2", "F", "B", "B", "3", "-", "D", "2", "F", "1", "-", "4", "A", "9", "7", "-", "9", "E", "F", "7", "-", "7", "5", "B", "D", "8", "1", "C", "0", "0", "0", "0", "0">>
V_UuidBad == <<"D", "4", "3", "2", "F", "B", "B", "3", "-", "D", "2", "F", "1", "-", "4", "A", "9", "7", "-", "9", "E", "F", "7", "-", "7", "5", "B", "D", "8", "1", "C", "0", "0", "0", "0", "X">>
V_RunAs == <<"k", "e", "y", "l", "i", "m", "e", ":", "t", "s", "s">>

(***************************************************************************)
(* The environment and the configuration files                             *)
(***************************************************************************)
EnvNames ==
    {"KEYLIME_CONFIG", "CLOUDAGENT_IP", "CLOUDAGENT_PORT", "REGISTRAR_IP",
     "REGISTRAR_PORT", "KEYLIME_AGENT_CONTACT_IP", "KEYLIME_AGENT_CONTACT_PORT",
     "KEYLIME_DIR", "REVOCATION_IP", "REVOCATION_PORT"}

\* std::env::var(name): Ok(value) when the variable is set, Err otherwise.
env_var(e, name) == IF IsSome(e[name]) THEN Ok(Unwrap(e[name])) ELSE Err("NotPresent")

Sections == {"cloud_agent", "general"}

CloudAgentKeys ==
    {"cloudagent_ip", "cloudagent_port", "registrar_ip", "registrar_port",
     "agent_uuid", "agent_contact_ip", "agent_contact_port", "tpm_hash_alg",
     "tpm_encryption_alg", "tpm_signing_alg", "listen_notifications",
     "listen_notfications", "revocation_cert", "secure_size", "payload_script",
     "dec_payload_file", "enc_keyname", "extract_payload_zip", "keylime_dir",
     "keylime_ca", "revocation_actions", "revocation_actions_dir",
     "allow_payload_revocation_actions", "run_as", "mtls_cert_enabled",
     "enable_insecure_payload"}

GeneralKeys == {"receive_revocation_ip", "receive_revocation_port"}

\* The (section, key) pairs a configuration file of the model may hold.
IniKeys == ({"cloud_agent"} \X CloudAgentKeys) \cup ({"general"} \X GeneralKeys)

ConfPaths == {DEFAULT_CONFIG, V_TestingConf}

\* What is at a configuration path: nothing, or an INI document, that is the
\* sections it has and, per (section, key), the value if the key is there.
NoFile == [exists |-> FALSE]
IniDoc(secs, kv) == [exists |-> TRUE, sections |-> secs, kv |-> kv]
FileAt(files, path) == IF path \in DOMAIN files THEN files[path] ELSE NoFile

\* Ini::load_from_file(path): fails when the file cannot be opened.
Ini_load_from_file(files, path) ==
    IF FileAt(files, path).exists THEN Ok(FileAt(files, path)) ELSE Err("Ini")

\* Ini::section(Some(name)) and Properties::get(key).
Ini_section(conf, section) ==
    IF section \in conf.sections THEN Some(section) ELSE None
Ini_get(conf, section, key) ==
    IF <<section, key>> \in DOMAIN conf.kv THEN conf.kv[<<section, key>>] ELSE None

(***************************************************************************)
(* config_file_get, config_get, config_get_env                             *)
(***************************************************************************)
\* A resolver that never looks at KEYLIME_CONFIG.
config_file_get_DefaultOnly(e) == DEFAULT_CONFIG

config_file_get(e) ==
    LET v == env_var(e, "KEYLIME_CONFIG")
    IN  IF v.ok
        THEN IF v.val # <<>> THEN v.val ELSE DEFAULT_CONFIG
        ELSE DEFAULT_CONFIG

ConfigurationError(what, name, file) ==
    Err([kind |-> "Configuration", what |-> what, name |-> name, file |-> file])

config_get(e, files, section, key) ==
    LET conf_name == config_file_get(e)
        loaded == Ini_load_from_file(files, conf_name)
    IN  IF ~loaded.ok THEN Err([kind |-> loaded.err, file |-> conf_name])
        ELSE IF ~IsSome(Ini_section(loaded.val, section))
             THEN ConfigurationError("section", section, conf_name)
        ELSE IF ~IsSome(Ini_get(loaded.val, section, key))
             THEN ConfigurationError("key", key, conf_name)
        ELSE Ok(Unwrap(Ini_get(loaded.val, section, key)))

\* A resolver that asks the file first and the environment only when the file
\* has no value.
config_get_env_FileFirst(e, files, section, key, env) ==
    LET f == config_get(e, files, section, key)
        v == env_var(e, env)
    IN  IF f.ok THEN f
        ELSE IF v.ok /\ v.val # <<>> THEN Ok(v.val) ELSE f

config_get_env(e, files, section, key, env) ==
    LET v == env_var(e, env)
    IN  IF v.ok
        THEN IF v.val # <<>> THEN Ok(v.val) ELSE config_get(e, files, section, key)
        ELSE config_get(e, files, section, key)

(***************************************************************************)
(* Standard-library string functions the source calls                      *)
(***************************************************************************)
UpperLetters == <<"A", "B", "C", "D", "E", "F", "G", "H", "I", "J", "K", "L", "M",
                  "N", "O", "P", "Q", "R", "S", "T", "U", "V", "W", "X", "Y", "Z">>
LowerLetters == <<"a", "b", "c", "d", "e", "f", "g", "h", "i", "j", "k", "l", "m",
                  "n", "o", "p", "q", "r", "s", "t", "u", "v", "w", "x", "y", "z">>
Digits == <<"0", "1", "2", "3", "4", "5", "6", "7", "8", "9">>

IndexIn(seq, c) == CHOOSE i \in 1..Len(seq) : seq[i] = c
Occurs(seq, c) == \E i \in 1..Len(seq) : seq[i] = c

\* char::to_lowercase on the characters of the model's alphabet.
char_to_lowercase(c) ==
    IF Occurs(UpperLetters, c) THEN LowerLetters[IndexIn(UpperLetters, c)] ELSE c

\* str::to_lowercase
to_lowercase(s) == [i \in 1..Len(s) |-> char_to_lowercase(s[i])]

\* <bool as FromStr>::from_str: exactly "true" or "false".
bool_from_str(s) ==
    IF s = S_true THEN Ok(TRUE)
    ELSE IF s = S_false THEN Ok(FALSE)
    ELSE Err([kind |-> "ParseBool"])

\* u32::MAX, in decimal digits (a u32 is kept as its decimal numeral, without
\* leading zeros).
U32_MAX == <<"4", "2", "9", "4", "9", "6", "7", "2", "9", "5">>

RECURSIVE StripZeros(_)
StripZeros(s) == IF Len(s) > 1 /\ s[1] = "0" THEN StripZeros(Tail(s)) ELSE s

\* a <= b for two numerals of the same length
RECURSIVE NumeralLeq(_, _)
NumeralLeq(a, b) ==
    IF a = <<>> THEN TRUE
    ELSE IF a[1] # b[1] THEN IndexIn(Digits, a[1]) < IndexIn(Digits, b[1])
    ELSE NumeralLeq(Tail(a), Tail(b))

\* str::parse::<u32>: an optional "+", then one or more decimal digits, in range.
parse_u32(s) ==
    LET body == IF s # <<>> /\ s[1] = "+" THEN Tail(s) ELSE s
        numeral == StripZeros(body)
    IN  IF body = <<>> \/ \E i \in 1..Len(body) : ~Occurs(Digits, body[i])
        THEN Err("ParseInt")
        ELSE IF Len(numeral) > Len(U32_MAX)
                \/ (Len(numeral) = Len(U32_MAX) /\ ~NumeralLeq(numeral, U32_MAX))
        THEN Err("ParseInt")
        ELSE Ok(numeral)

\* Path::new(base).join(rel), displayed: an absolute rel replaces base; a
\* separator is added unless base is empty or already ends with one.
Path_join(base, rel) ==
    IF rel # <<>> /\ rel[1] = "/" THEN rel
    ELSE IF base = <<>> THEN rel
    ELSE IF base[Len(base)] = "/" THEN base \o rel
    ELSE base \o <<"/">> \o rel

(***************************************************************************)
(* Uuid (uuid crate): a value is its 32 hexadecimal digits, each 0..15     *)
(***************************************************************************)
HexLower == <<"0", "1", "2", "3", "4", "5", "6", "7", "8", "9", "a", "b", "c", "d", "e", "f">>
HexUpper == <<"0", "1", "2", "3", "4", "5", "6", "7", "8", "9", "A", "B", "C", "D", "E", "F">>
IsHex(c) == Occurs(HexLower, c) \/ Occurs(HexUpper, c)
HexValue(c) == IF Occurs(HexLower, c) THEN IndexIn(HexLower, c) - 1 ELSE IndexIn(HexUpper, c) - 1

UUID_SIMPLE_LEN == 32
AGENT_UUID_LEN == 36
HyphenAt == {9, 14, 19, 24}
UrnPrefix == <<"u", "r", "n", ":", "u", "u", "i", "d", ":">>

\* Uuid::to_string: the hyphenated lowercase form.
Uuid_to_string(u) ==
    LET hex(a, b) == [i \in 1..(b - a + 1) |-> HexLower[u[a + i - 1] + 1]]
    IN  hex(1, 8) \o <<"-">> \o hex(9, 12) \o <<"-">> \o hex(13, 16) \o <<"-">>
        \o hex(17, 20) \o <<"-">> \o hex(21, 32)

\* Uuid::parse_str: the simple form (32 hex digits) or the hyphenated form
\* (8-4-4-4-12), in either letter case, optionally after "urn:uuid:".
Uuid_parse_str(input) ==
    LET s == IF Len(input) = Len(UrnPrefix) + AGENT_UUID_LEN
                /\ SubSeq(input, 1, Len(UrnPrefix)) = UrnPrefix
             THEN SubSeq(input, Len(UrnPrefix) + 1, Len(input))
             ELSE input
    IN  IF Len(s) = UUID_SIMPLE_LEN /\ \A i \in 1..Len(s) : IsHex(s[i])
        THEN Ok([i \in 1..UUID_SIMPLE_LEN |-> HexValue(s[i])])
        ELSE IF /\ Len(s) = AGENT_UUID_LEN
                /\ \A i \in 1..Len(s) : IF i \in HyphenAt THEN s[i] = "-" ELSE IsHex(s[i])
        THEN LET digits == SelectSeq(s, LAMBDA c : c # "-")
             IN  Ok([i \in 1..UUID_SIMPLE_LEN |-> HexValue(digits[i])])
        ELSE Err("UuidParse")

\* Uuid::new_v4 with the random bits the generator delivered: the version
\* digit is 4 and the variant digit is one of 8, 9, a, b.
Uuid_new_v4(random) ==
    [i \in 1..UUID_SIMPLE_LEN |->
        IF i = 13 THEN 4
        ELSE IF i = 17 THEN 8 + (random[i] % 4)
        ELSE random[i]]

(***************************************************************************)
(* get_uuid                                                                *)
(***************************************************************************)
\* A get_uuid that hands a configured UUID back as it was written.
get_uuid_AsWritten(agent_uuid_config, random) ==
    IF agent_uuid_config = S_openstack THEN S_openstack
    ELSE IF agent_uuid_config = S_hash_ek THEN S_hash_ek
    ELSE IF agent_uuid_config = S_generate THEN Uuid_to_string(Uuid_new_v4(random))
    ELSE IF Uuid_parse_str(agent_uuid_config).ok THEN agent_uuid_config
    ELSE Uuid_to_string(Uuid_new_v4(random))

get_uuid(agent_uuid_config, random) ==
    IF agent_uuid_config = S_openstack THEN S_openstack
    ELSE IF agent_uuid_config = S_hash_ek THEN S_hash_ek
    ELSE IF agent_uuid_config = S_generate THEN Uuid_to_string(Uuid_new_v4(random))
    ELSE LET parsed == Uuid_parse_str(agent_uuid_config)
         IN  IF parsed.ok THEN Uuid_to_string(parsed.val)
             ELSE Uuid_to_string(Uuid_new_v4(random))

(***************************************************************************)
(* Algorithm names (crate::algorithms)                                     *)
(***************************************************************************)
HashAlgorithms == {"Sha1", "Sha256"}
EncryptionAlgorithms == {"Rsa", "Ecc"}
SignAlgorithms == {"RsaSsa", "EcDsa"}

\* HashAlgorithm::try_from(&str)
HashAlgorithm_try_from(s) ==
    IF s = V_Sha1 THEN Ok("Sha1")
    ELSE IF s = V_Sha256 THEN Ok("Sha256")
    ELSE Err([kind |-> "Other"])

\* EncryptionAlgorithm::try_from(&str)
EncryptionAlgorithm_try_from(s) ==
    IF s = V_Rsa THEN Ok("Rsa")
    ELSE IF s = V_Ecc THEN Ok("Ecc")
    ELSE Err([kind |-> "Other"])

\* SignAlgorithm::try_from(&str)
SignAlgorithm_try_from(s) ==
    IF s = V_RsaSsa THEN Ok("RsaSsa")
    ELSE IF s = V_Ecdsa THEN Ok("EcDsa")
    ELSE Err([kind |-> "Other"])

\* The tags the algorithms are written with in a stored record, and read by.
HashAlgorithm_serialize(h) == IF h = "Sha1" THEN "sha1" ELSE "sha256"
HashAlgorithm_deserialize(tag) ==
    IF tag = "sha1" THEN Ok("Sha1")
    ELSE IF tag = "sha256" THEN Ok("Sha256")
    ELSE Err([kind |-> "Json"])
SignAlgorithm_serialize(a) == IF a = "RsaSsa" THEN "rsassa" ELSE "ecdsa"
SignAlgorithm_deserialize(tag) ==
    IF tag = "rsassa" THEN Ok("RsaSsa")
    ELSE IF tag = "ecdsa" THEN Ok("EcDsa")
    ELSE Err([kind |-> "Json"])

(***************************************************************************)
(* TpmData: load, store, valid                                             *)
(*                                                                         *)
(* A file holds a sequence of JSON tokens, <<class, text>>: punctuation,   *)
(* strings (field names and algorithm tags) and numbers (the bytes of the  *)
(* saved context).                                                         *)
(***************************************************************************)
TpmData(h, s, c) == [ak_hash_alg |-> h, ak_sign_alg |-> s, ak_context |-> c]

Sym(x) == <<"sym", x>>
Str(x) == <<"str", x>>
Num(n) == <<"num", n>>

\* What is at an identity-record path: nothing, or a file with its tokens,
\* which the process may or may not be permitted to open.
TpmFile(tokens, access) == [exists |-> TRUE, access |-> access, data |-> tokens]

\* serde_json::to_writer_pretty of a TpmData value: the whole document.
TpmData_serialize(r) ==
    <<Sym("{"), Str("ak_hash_alg"), Str(HashAlgorithm_serialize(r.ak_hash_alg)),
      Str("ak_sign_alg"), Str(SignAlgorithm_serialize(r.ak_sign_alg)),
      Str("ak_context"), Sym("[")>>
    \o [i \in 1..Len(r.ak_context) |-> Num(r.ak_context[i])]
    \o <<Sym("]"), Sym("}")>>

\* serde_json::from_reader::<TpmData>: the document must be complete, carry
\* the three fields with known algorithm tags, and nothing may follow it.
TpmData_deserialize(t) ==
    LET n == Len(t)
        wellFormed ==
            /\ n >= 9
            /\ t[1] = Sym("{")
            /\ t[2] = Str("ak_hash_alg")
            /\ t[3][1] = "str" /\ HashAlgorithm_deserialize(t[3][2]).ok
            /\ t[4] = Str("ak_sign_alg")
            /\ t[5][1] = "str" /\ SignAlgorithm_deserialize(t[5][2]).ok
            /\ t[6] = Str("ak_context")
            /\ t[7] = Sym("[")
            /\ \A i \in 8..(n - 2) : t[i][1] = "num"
            /\ t[n - 1] = Sym("]")
            /\ t[n] = Sym("}")
    IN  IF wellFormed
        THEN Ok(TpmData(HashAlgorithm_deserialize(t[3][2]).val,
                        SignAlgorithm_deserialize(t[5][2]).val,
                        [i \in 1..(n - 9) |-> t[7 + i][2]]))
        ELSE Err([kind |-> "Json"])

\* File::open(path) for reading.
File_open(files, path) ==
    LET f == FileAt(files, path)
    IN  IF f.exists /\ f.access THEN Ok(f.data) ELSE Err([kind |-> "Io"])

\* Path::exists
Path_exists(files, path) == FileAt(files, path).exists

\* TpmData::load(path)
TpmData_load(files, path) ==
    LET file == File_open(files, path)
    IN  IF ~file.ok THEN file
        ELSE TpmData_deserialize(file.val)

\* A create that opens an existing file for writing without emptying it.
File_create_NoTruncate(files, path) ==
    LET f == FileAt(files, path)
    IN  IF f.exists /\ ~f.access THEN Err([kind |-> "Io"])
        ELSE IF f.exists THEN Ok(files)
        ELSE Ok([files EXCEPT ![path] = TpmFile(<<>>, TRUE)])

\* File::create(path): fails on a file the process may not open; otherwise
\* the file exists afterwards and is empty.
File_create(files, path) ==
    LET f == FileAt(files, path)
    IN  IF f.exists /\ ~f.access THEN Err([kind |-> "Io"])
        ELSE Ok([files EXCEPT ![path] = TpmFile(<<>>, TRUE)])

\* Writing tokens at the start of the file at path, over what is there.
File_write(files, path, tokens) ==
    LET old == files[path].data
    IN  [files EXCEPT ![path].data =
            tokens \o SubSeq(old, Len(tokens) + 1, Len(old))]

\* TpmData::store(self, path), where the disk accepts `room` tokens before a
\* write fails: the result and the files afterwards.
TpmData_store(files, self, path, room) ==
    LET created == File_create(files, path)
        doc == TpmData_serialize(self)
    IN  IF ~created.ok THEN [res |-> created, files |-> files]
        ELSE IF room < Len(doc)
        THEN [res |-> Err([kind |-> "Io"]),
              files |-> File_write(created.val, path, SubSeq(doc, 1, room))]
        ELSE [res |-> Ok("unit"), files |-> File_write(created.val, path, doc)]

\* A valid that is content with one matching algorithm.
TpmData_valid_Either(self, hash_alg, sign_alg) ==
    hash_alg = self.ak_hash_alg \/ sign_alg = self.ak_sign_alg

\* TpmData::valid(&self, hash_alg, sign_alg)
TpmData_valid(self, hash_alg, sign_alg) ==
    hash_alg = self.ak_hash_alg /\ sign_alg = self.ak_sign_alg

(***************************************************************************)
(* SymmKey: try_from, xor                                                  *)
(***************************************************************************)
AES_128_KEY_LEN == 16
AES_256_KEY_LEN == 32

SymmKey(b) == [bytes |-> b]

\* A try_from that takes every length from the shorter key to the longer one.
SymmKey_try_from_Range(v) ==
    IF Len(v) >= AES_128_KEY_LEN /\ Len(v) <= AES_256_KEY_LEN
    THEN Ok(SymmKey(v))
    ELSE Err([kind |-> "KeyLength", len |-> Len(v)])

\* impl TryFrom<&[u8]> for SymmKey
SymmKey_try_from(v) ==
    IF Len(v) = AES_128_KEY_LEN \/ Len(v) = AES_256_KEY_LEN
    THEN Ok(SymmKey(v))
    ELSE Err([kind |-> "KeyLength", len |-> Len(v)])

\* x ^ y on u8
RECURSIVE u8_xor(_, _)
u8_xor(x, y) ==
    IF x = 0 /\ y = 0 THEN 0
    ELSE ((x + y) % 2) + 2 * u8_xor(x \div 2, y \div 2)

\* An xor that stops at the end of the shorter operand instead of failing.
SymmKey_xor_Truncating(self, other) ==
    LET n == IF Len(self.bytes) < Len(other.bytes) THEN Len(self.bytes) ELSE Len(other.bytes)
    IN  Ok(SymmKey([i \in 1..n |-> u8_xor(self.bytes[i], other.bytes[i])]))

\* SymmKey::xor(&self, other)
SymmKey_xor(self, other) ==
    IF Len(self.bytes) # Len(other.bytes)
    THEN Err([kind |-> "Other"])
    ELSE LET outbuf == [i \in 1..Len(self.bytes) |-> 0]
         IN  Ok(SymmKey([i \in 1..Len(outbuf) |-> u8_xor(self.bytes[i], other.bytes[i])]))

(***************************************************************************)
(* KeylimeConfig::build and the helpers it calls                           *)
(***************************************************************************)
\* Result::and_then, Result::or_else and Result::or
and_then(r, F(_)) == IF r.ok THEN F(r.val) ELSE r
or_else(r, F(_)) == IF r.ok THEN r ELSE F(r.err)
or(r, other) == IF r.ok THEN r ELSE other

revocation_ip_get(e, files) ==
    config_get_env(e, files, "general", "receive_revocation_ip", "REVOCATION_IP")

revocation_port_get(e, files) ==
    config_get_env(e, files, "general", "receive_revocation_port", "REVOCATION_PORT")

cloudagent_contact_ip_get(e, files) ==
    LET r == config_get_env(e, files, "cloud_agent", "agent_contact_ip",
                            "KEYLIME_AGENT_CONTACT_IP")
    IN  IF r.ok THEN Some(r.val) ELSE None

cloudagent_contact_port_get(e, files) ==
    LET r == config_get_env(e, files, "cloud_agent", "agent_contact_port",
                            "KEYLIME_AGENT_CONTACT_PORT")
    IN  IF r.ok
        THEN IF parse_u32(r.val).ok THEN Ok(Some(parse_u32(r.val).val))
             ELSE Err([kind |-> "Configuration", what |-> "port", name |-> r.val])
        ELSE Ok(None)

\* The first failure among the steps, in the order the source takes them.
FirstErr(steps) ==
    steps[CHOOSE i \in 1..Len(steps) :
            /\ ~steps[i].ok
            /\ \A j \in 1..(i - 1) : steps[j].ok]

\* The steps of KeylimeConfig::build that do more than one lookup.
parse_bool(s) == bool_from_str(to_lowercase(s))

\* A build that asks for the misspelled key first.
build_run_revocation_MisspelledFirst(e, files) ==
    and_then(or_else(config_get(e, files, "cloud_agent", "listen_notfications"),
                     LAMBDA err : config_get(e, files, "cloud_agent", "listen_notifications")),
             parse_bool)

build_run_revocation(e, files) ==
    and_then(or_else(config_get(e, files, "cloud_agent", "listen_notifications"),
                     LAMBDA err : config_get(e, files, "cloud_agent", "listen_notfications")),
             parse_bool)

build_work_dir(e, files) ==
    or_else(config_get_env(e, files, "cloud_agent", "keylime_dir", "KEYLIME_DIR"),
            LAMBDA err : Ok(WORK_DIR))

\* A build that looks for the identity record in the default directory.
build_tpm_data_path_DefaultDir(work_dir) == Path_join(WORK_DIR, TPM_DATA)

build_tpm_data_path(work_dir) == Path_join(work_dir, TPM_DATA)

build_tpm_data(tpmfs, tpm_data_path) ==
    IF Path_exists(tpmfs, tpm_data_path)
    THEN IF TpmData_load(tpmfs, tpm_data_path).ok
         THEN Some(TpmData_load(tpmfs, tpm_data_path).val)
         ELSE None
    ELSE None

\* A build that resolves the "default" CA path under the default directory.
build_keylime_ca_path_DefaultDir(e, files, work_dir) ==
    and_then(config_get(e, files, "cloud_agent", "keylime_ca"),
             LAMBDA s : IF s = S_default
                        THEN Ok(Path_join(WORK_DIR, DEFAULT_CA_PATH))
                        ELSE Ok(s))

build_keylime_ca_path(e, files, work_dir) ==
    and_then(config_get(e, files, "cloud_agent", "keylime_ca"),
             LAMBDA s : IF s = S_default
                        THEN Ok(Path_join(work_dir, DEFAULT_CA_PATH))
                        ELSE Ok(s))

build_revocation_actions(e, files) ==
    or_else(config_get(e, files, "cloud_agent", "revocation_actions"),
            LAMBDA err : Ok(REV_ACTIONS))

build_revocation_actions_dir(e, files) ==
    or_else(config_get(e, files, "cloud_agent", "revocation_actions_dir"),
            LAMBDA err : Ok(REV_ACTIONS_DIR))

build_allow_payload_revocation_actions(e, files) ==
    LET r == config_get(e, files, "cloud_agent", "allow_payload_revocation_actions")
    IN  IF r.ok THEN parse_bool(r.val) ELSE Ok(ALLOW_PAYLOAD_REV_ACTIONS)

build_run_as(e, files, uid) ==
    IF uid = 0
    THEN LET r == config_get(e, files, "cloud_agent", "run_as")
         IN  IF r.ok THEN Some(r.val) ELSE None
    ELSE None

\* A build that propagates a malformed mtls_cert_enabled.
build_mtls_enabled_Strict(e, files) ==
    LET r == config_get(e, files, "cloud_agent", "mtls_cert_enabled")
    IN  IF r.ok THEN parse_bool(r.val) ELSE Ok(TRUE)

build_mtls_enabled(e, files) ==
    LET r == config_get(e, files, "cloud_agent", "mtls_cert_enabled")
    IN  IF r.ok THEN or(parse_bool(r.val), Ok(MTLS_ENABLED)) ELSE Ok(TRUE)

build_enable_insecure_payload(e, files) ==
    LET r == config_get(e, files, "cloud_agent", "enable_insecure_payload")
    IN  IF r.ok THEN or(parse_bool(r.val), Ok(ALLOW_INSECURE_PAYLOAD)) ELSE Ok(FALSE)

\* KeylimeConfig::build(), given the process environment e, the configuration
\* files, the identity-record files, the effective user id and the random
\* bits Uuid::new_v4 would draw.
build(e, files, tpmfs, uid, random) ==
    LET get(key) == config_get(e, files, "cloud_agent", key)
        agent_ip == config_get_env(e, files, "cloud_agent", "cloudagent_ip", "CLOUDAGENT_IP")
        agent_port == config_get_env(e, files, "cloud_agent", "cloudagent_port", "CLOUDAGENT_PORT")
        registrar_ip == config_get_env(e, files, "cloud_agent", "registrar_ip", "REGISTRAR_IP")
        registrar_port == config_get_env(e, files, "cloud_agent", "registrar_port", "REGISTRAR_PORT")
        agent_uuid_config == get("agent_uuid")
        agent_uuid == and_then(agent_uuid_config, LAMBDA s : Ok(get_uuid(s, random)))
        agent_contact_ip == Ok(cloudagent_contact_ip_get(e, files))
        agent_contact_port == cloudagent_contact_port_get(e, files)
        hash_alg == and_then(get("tpm_hash_alg"), HashAlgorithm_try_from)
        enc_alg == and_then(get("tpm_encryption_alg"), EncryptionAlgorithm_try_from)
        sign_alg == and_then(get("tpm_signing_alg"), SignAlgorithm_try_from)
        run_revocation == build_run_revocation(e, files)
        revocation_cert == get("revocation_cert")
        revocation_ip == config_get(e, files, "general", "receive_revocation_ip")
        revocation_port == config_get(e, files, "general", "receive_revocation_port")
        secure_size == get("secure_size")
        payload_script == get("payload_script")
        dec_payload_filename == get("dec_payload_file")
        key_filename == get("enc_keyname")
        extract_payload_zip == and_then(get("extract_payload_zip"), parse_bool)
        work_dir == build_work_dir(e, files)
        tpm_data_path == build_tpm_data_path(work_dir.val)
        tpm_data == build_tpm_data(tpmfs, tpm_data_path)
        keylime_ca_path == build_keylime_ca_path(e, files, work_dir.val)
        revocation_actions == build_revocation_actions(e, files)
        revocation_actions_dir == build_revocation_actions_dir(e, files)
        allow_payload_revocation_actions == build_allow_payload_revocation_actions(e, files)
        run_as == build_run_as(e, files, uid)
        mtls_enabled == build_mtls_enabled(e, files)
        enable_insecure_payload == build_enable_insecure_payload(e, files)
        steps ==
            <<agent_ip, agent_port, registrar_ip, registrar_port, agent_uuid,
              agent_contact_port, hash_alg, enc_alg, sign_alg, run_revocation,
              revocation_cert, revocation_ip, revocation_port, secure_size,
              payload_script, dec_payload_filename, key_filename,
              extract_payload_zip, work_dir, keylime_ca_path, revocation_actions,
              revocation_actions_dir, allow_payload_revocation_actions,
              mtls_enabled, enable_insecure_payload>>
    IN  IF \E i \in 1..Len(steps) : ~steps[i].ok
        THEN Err(FirstErr(steps).err)
        ELSE Ok([agent_ip |-> agent_ip.val,
                 agent_port |-> agent_port.val,
                 registrar_ip |-> registrar_ip.val,
                 registrar_port |-> registrar_port.val,
                 agent_uuid |-> agent_uuid.val,
                 agent_contact_ip |-> agent_contact_ip.val,
                 agent_contact_port |-> agent_contact_port.val,
                 hash_alg |-> hash_alg.val,
                 enc_alg |-> enc_alg.val,
                 sign_alg |-> sign_alg.val,
                 tpm_data |-> tpm_data,
                 tpm_data_path |-> tpm_data_path,
                 run_revocation |-> run_revocation.val,
                 revocation_cert |-> revocation_cert.val,
                 revocation_ip |-> revocation_ip.val,
                 revocation_port |-> revocation_port.val,
                 secure_size |-> secure_size.val,
                 payload_script |-> payload_script.val,
                 dec_payload_filename |-> dec_payload_filename.val,
                 key_filename |-> key_filename.val,
                 extract_payload_zip |-> extract_payload_zip.val,
                 keylime_ca_path |-> keylime_ca_path.val,
                 revocation_actions |-> revocation_actions.val,
                 revocation_actions_dir |-> revocation_actions_dir.val,
                 allow_payload_revocation_actions |-> allow_payload_revocation_actions.val,
                 work_dir |-> work_dir.val,
                 mtls_enabled |-> mtls_enabled.val,
                 enable_insecure_payload |-> enable_insecure_payload.val,
                 run_as |-> run_as])

(***************************************************************************)
(* The configuration resolver as a state machine: the environment and the  *)
(* files are changed a bounded number of times, and config_get_env, the    *)
(* lookup helpers and KeylimeConfig::build are called on what is there.    *)
(***************************************************************************)
MaxEdits == 1
MaxSeed == 2

\* The random bits a call of Uuid::new_v4 may draw.
RandomBits(seed) == [i \in 1..UUID_SIMPLE_LEN |-> (seed * i + 3) % 16]

KvOf(entries) ==
    [k \in IniKeys |->
        IF \E en \in entries : en[1] = k[1] /\ en[2] = k[2]
        THEN Some((CHOOSE en \in entries : en[1] = k[1] /\ en[2] = k[2])[3])
        ELSE None]

\* A configuration file with every key KeylimeConfig::build reads.
FullConf ==
    IniDoc(Sections, KvOf({
        <<"cloud_agent", "cloudagent_ip", V_Ip1>>,
        <<"cloud_agent", "cloudagent_port", V_Port1>>,
        <<"cloud_agent", "registrar_ip", V_Ip1>>,
        <<"cloud_agent", "registrar_port", V_Port2>>,
        <<"cloud_agent", "agent_uuid", V_UuidUpper>>,
        <<"cloud_agent", "agent_contact_ip", V_Ip1>>,
        <<"cloud_agent", "agent_contact_port", V_Port1>>,
        <<"cloud_agent", "tpm_hash_alg", V_Sha256>>,
        <<"cloud_agent", "tpm_encryption_alg", V_Rsa>>,
        <<"cloud_agent", "tpm_signing_alg", V_RsaSsa>>,
        <<"cloud_agent", "listen_notifications", V_True>>,
        <<"cloud_agent", "listen_notfications", S_false>>,
        <<"cloud_agent", "revocation_cert", S_default>>,
        <<"cloud_agent", "secure_size", V_Size>>,
        <<"cloud_agent", "payload_script", V_Script>>,
        <<"cloud_agent", "dec_payload_file", V_Payload>>,
        <<"cloud_agent", "enc_keyname", V_KeyName>>,
        <<"cloud_agent", "extract_payload_zip", V_True>>,
        <<"cloud_agent", "keylime_dir", V_DirTmp>>,
        <<"cloud_agent", "keylime_ca", S_default>>,
        <<"cloud_agent", "revocation_actions", V_Actions>>,
        <<"cloud_agent", "revocation_actions_dir", V_DirSlash>>,
        <<"cloud_agent", "allow_payload_revocation_actions", S_false>>,
        <<"cloud_agent", "run_as", V_RunAs>>,
        <<"cloud_agent", "mtls_cert_enabled", S_false>>,
        <<"cloud_agent", "enable_insecure_payload", S_true>>,
        <<"general", "receive_revocation_ip", V_Ip1>>,
        <<"general", "receive_revocation_port", V_Port2>>}))

\* A configuration file of an older deployment: the misspelled key only, and
\* none of the keys that have a default.
LegacyConf ==
    IniDoc(Sections, KvOf({
        <<"cloud_agent", "cloudagent_ip", V_Ip2>>,
        <<"cloud_agent", "cloudagent_port", V_Port2>>,
        <<"cloud_agent", "registrar_ip", V_Ip2>>,
        <<"cloud_agent", "registrar_port", V_Port1>>,
        <<"cloud_agent", "agent_uuid", S_generate>>,
        <<"cloud_agent", "tpm_hash_alg", V_Sha1>>,
        <<"cloud_agent", "tpm_encryption_alg", V_Ecc>>,
        <<"cloud_agent", "tpm_signing_alg", V_Ecdsa>>,
        <<"cloud_agent", "listen_notfications", V_True>>,
        <<"cloud_agent", "revocation_cert", S_default>>,
        <<"cloud_agent", "secure_size", V_Size>>,
        <<"cloud_agent", "payload_script", V_Script>>,
        <<"cloud_agent", "dec_payload_file", V_Payload>>,
        <<"cloud_agent", "enc_keyname", V_KeyName>>,
        <<"cloud_agent", "extract_payload_zip", V_FALSE>>,
        <<"cloud_agent", "keylime_ca", V_CaFile>>,
        <<"general", "receive_revocation_ip", V_Ip2>>,
        <<"general", "receive_revocation_port", V_Port1>>}))

\* The values an edit may give a key or an environment variable.
BoolKeys ==
    {"listen_notifications", "listen_notfications", "extract_payload_zip",
     "allow_payload_revocation_actions", "mtls_cert_enabled",
     "enable_insecure_payload"}

KeyValues(key) ==
    IF key \in BoolKeys THEN {V_FALSE, V_Yes}
    ELSE IF key = "keylime_dir" THEN {V_DirSlash, V_Empty}
    ELSE IF key = "keylime_ca" THEN {V_CaFile, V_CaDefaultCaps}
    ELSE IF key = "agent_uuid" THEN {S_generate, V_UuidBad}
    ELSE IF key = "agent_contact_port" THEN {V_BadPort}
    ELSE IF key \in {"tpm_hash_alg", "tpm_encryption_alg", "tpm_signing_alg"} THEN {V_Md5}
    ELSE IF key = "cloudagent_ip" THEN {V_Ip2}
    ELSE {}

EnvValues(name) ==
    IF name = "KEYLIME_CONFIG" THEN {V_Empty, V_TestingConf, V_MissingConf}
    ELSE IF name = "KEYLIME_DIR" THEN {V_Empty, V_DirSlash}
    ELSE IF name \in {"CLOUDAGENT_IP", "REGISTRAR_IP", "KEYLIME_AGENT_CONTACT_IP",
                      "REVOCATION_IP"} THEN {V_Empty, V_Ip2}
    ELSE IF name = "KEYLIME_AGENT_CONTACT_PORT" THEN {V_Empty, V_BadPort}
    ELSE {V_Empty, V_Port2}

\* The working directories of the model and the identity-record paths in them.
WorkDirs == {WORK_DIR, V_DirTmp, V_DirSlash, V_Empty}
TpmPaths == {Path_join(d, TPM_DATA) : d \in WorkDirs}

Record1 == TpmData("Sha256", "RsaSsa", <<7, 200>>)
Record2 == TpmData("Sha1", "EcDsa", <<>>)
Garbage == <<Sym("{"), Str("ak_hash_alg")>>

TpmFileStates ==
    {NoFile,
     TpmFile(TpmData_serialize(Record1), TRUE),
     TpmFile(TpmData_serialize(Record2), TRUE),
     TpmFile(TpmData_serialize(Record1), FALSE),
     TpmFile(Garbage, TRUE)}

NoCall == [op |-> "none"]

\* At the start the default configuration file is complete, a legacy file is
\* at the testing path, KEYLIME_CONFIG is unset or names the legacy file, and
\* the working directories hold identity-record files in different states.
InitConfig ==
    /\ \E cfg \in {None, Some(V_TestingConf)} :
            envp = [n \in EnvNames |-> IF n = "KEYLIME_CONFIG" THEN cfg ELSE None]
    /\ ini_files = [p \in ConfPaths |-> IF p = DEFAULT_CONFIG THEN FullConf ELSE LegacyConf]
    /\ tpm_files = [p \in TpmPaths |->
            IF p = Path_join(WORK_DIR, TPM_DATA) THEN TpmFile(TpmData_serialize(Record1), TRUE)
            ELSE IF p = Path_join(V_DirTmp, TPM_DATA) THEN TpmFile(TpmData_serialize(Record2), TRUE)
            ELSE IF p = Path_join(V_DirSlash, TPM_DATA) THEN TpmFile(Garbage, TRUE)
            ELSE NoFile]
    /\ nedits = 0
    /\ ret = NoCall
    /\ keyA = None /\ keyB = None /\ rec = None
    /\ stored = <<>>

\* The process is sequential: the environment and the disk change, and a call
\* is made, only while no result is pending.
Idle == ret = NoCall
Edited == Idle /\ nedits < MaxEdits /\ nedits' = nedits + 1 /\ UNCHANGED ret

\* std::env::set_var
SetEnv(name, v) ==
    /\ Edited
    /\ envp' = [envp EXCEPT ![name] = Some(v)]
    /\ UNCHANGED <<ini_files, tpm_files, keyA, keyB, rec, stored>>

\* The operator edits a configuration file: a key is deleted ...
RemoveKey(path, k) ==
    /\ Edited
    /\ ini_files[path].exists
    /\ IsSome(ini_files[path].kv[k])
    /\ ini_files' = [ini_files EXCEPT ![path].kv[k] = None]
    /\ UNCHANGED <<envp, tpm_files, keyA, keyB, rec, stored>>

\* ... a key is given a value (its section is created if it is not there) ...
SetKey(path, k, v) ==
    /\ Edited
    /\ ini_files[path].exists
    /\ ini_files' = [ini_files EXCEPT ![path].kv[k] = Some(v),
                                      ![path].sections = @ \cup {k[1]}]
    /\ UNCHANGED <<envp, tpm_files, keyA, keyB, rec, stored>>

\* ... a section is deleted with its keys ...
RemoveSection(path, section) ==
    /\ Edited
    /\ ini_files[path].exists
    /\ section \in ini_files[path].sections
    /\ ini_files' = [ini_files EXCEPT
            ![path].sections = @ \ {section},
            ![path].kv = [k \in IniKeys |-> IF k[1] = section THEN None ELSE @[k]]]
    /\ UNCHANGED <<envp, tpm_files, keyA, keyB, rec, stored>>

\* ... or the file is deleted.
RemoveFile(path) ==
    /\ Edited
    /\ ini_files[path].exists
    /\ ini_files' = [ini_files EXCEPT ![path] = NoFile]
    /\ UNCHANGED <<envp, tpm_files, keyA, keyB, rec, stored>>

\* An identity-record file is left in a working directory, or removed.
PutTpmFile(path, file) ==
    /\ Edited
    /\ tpm_files[path] # file
    /\ tpm_files' = [tpm_files EXCEPT ![path] = file]
    /\ UNCHANGED <<envp, ini_files, keyA, keyB, rec, stored>>

\* The (section, key, environment variable) triples the source resolves.
EnvTriples ==
    {<<"cloud_agent", "cloudagent_ip", "CLOUDAGENT_IP">>,
     <<"cloud_agent", "cloudagent_port", "CLOUDAGENT_PORT">>,
     <<"cloud_agent", "registrar_ip", "REGISTRAR_IP">>,
     <<"cloud_agent", "registrar_port", "REGISTRAR_PORT">>,
     <<"cloud_agent", "agent_contact_ip", "KEYLIME_AGENT_CONTACT_IP">>,
     <<"cloud_agent", "agent_contact_port", "KEYLIME_AGENT_CONTACT_PORT">>,
     <<"cloud_agent", "keylime_dir", "KEYLIME_DIR">>,
     <<"general", "receive_revocation_ip", "REVOCATION_IP">>,
     <<"general", "receive_revocation_port", "REVOCATION_PORT">>}

CallConfigGetEnv(t) ==
    /\ Idle
    /\ ret' = [op |-> "config_get_env", section |-> t[1], key |-> t[2], env |-> t[3],
               res |-> config_get_env(envp, ini_files, t[1], t[2], t[3])]
    /\ UNCHANGED <<envp, ini_files, tpm_files, nedits, keyA, keyB, rec, stored>>

\* permissions::get_euid() is uid during the call.
CallBuild(uid, seed) ==
    /\ Idle
    /\ ret' = [op |-> "build", euid |-> uid,
               res |-> build(envp, ini_files, tpm_files, uid, RandomBits(seed))]
    /\ UNCHANGED <<envp, ini_files, tpm_files, nedits, keyA, keyB, rec, stored>>

\* The caller drops the result of the last call.
Return ==
    /\ ~Idle
    /\ ret' = NoCall
    /\ UNCHANGED <<envp, ini_files, tpm_files, nedits, keyA, keyB, rec, stored>>

NextConfig ==
    \/ \E name \in EnvNames : \E v \in EnvValues(name) : SetEnv(name, v)
    \/ \E path \in ConfPaths : \E k \in IniKeys : RemoveKey(path, k)
    \/ \E path \in ConfPaths : \E k \in IniKeys : \E v \in KeyValues(k[2]) : SetKey(path, k, v)
    \/ \E path \in ConfPaths : \E section \in Sections : RemoveSection(path, section)
    \/ \E path \in ConfPaths : RemoveFile(path)
    \/ \E path \in TpmPaths : \E file \in TpmFileStates : PutTpmFile(path, file)
    \/ \E t \in EnvTriples : CallConfigGetEnv(t)
    \/ \E uid \in {0, 1000} : \E seed \in 1..MaxSeed : CallBuild(uid, seed)
    \/ Return

SpecConfig == InitConfig /\ [][NextConfig]_vars

(***************************************************************************)
(* get_uuid as a state machine: it is called on identifiers of many shapes *)
(***************************************************************************)
MaxUuids == 8

V_OpenstackCaps == <<"O", "P", "E", "N", "S", "T", "A", "C", "K">>
V_NotAUuid == <<"n", "o", "t", "-", "a", "-", "u", "u", "i", "d">>

char_to_uppercase(c) ==
    IF Occurs(LowerLetters, c) THEN UpperLetters[IndexIn(LowerLetters, c)] ELSE c
to_uppercase(s) == [i \in 1..Len(s) |-> char_to_uppercase(s[i])]

\* Identifiers made from a UUID: well-formed in four ways, malformed in four.
UuidForms(u) ==
    LET hyphenated == Uuid_to_string(u)
        simple == SelectSeq(hyphenated, LAMBDA c : c # "-")
    IN  {hyphenated,
         to_uppercase(hyphenated),
         simple,
         UrnPrefix \o hyphenated,
         SubSeq(hyphenated, 1, Len(hyphenated) - 1),
         hyphenated \o <<"0">>,
         [hyphenated EXCEPT ![Len(hyphenated)] = "X"],
         [hyphenated EXCEPT ![9] = "0", ![10] = "-"]}

UuidInputs ==
    {S_openstack, S_hash_ek, S_generate, V_OpenstackCaps, V_NotAUuid, V_Empty,
     V_UuidUpper, V_UuidBad}
    \cup UNION {UuidForms(RandomBits(n)) : n \in 1..MaxUuids}

InitUuid ==
    /\ envp = <<>> /\ ini_files = <<>> /\ tpm_files = <<>> /\ nedits = 0
    /\ ret = NoCall
    /\ keyA = None /\ keyB = None /\ rec = None /\ stored = <<>>

CallGetUuid(input, seed) ==
    /\ Idle
    /\ ret' = [op |-> "get_uuid", input |-> input, random |-> RandomBits(seed),
               res |-> get_uuid(input, RandomBits(seed))]
    /\ UNCHANGED <<envp, ini_files, tpm_files, nedits, keyA, keyB, rec, stored>>

NextUuid ==
    \/ \E input \in UuidInputs : \E seed \in 1..MaxSeed : CallGetUuid(input, seed)
    \/ Return

SpecUuid == InitUuid /\ [][NextUuid]_vars

(***************************************************************************)
(* SymmKey as a state machine: keys are made from byte sequences of every  *)
(* length up to MaxBytes and combined with xor                             *)
(***************************************************************************)
MaxBytes == 33

\* The byte sequence of a length that starts at a byte and goes up by a step.
Bytes(len, start, step) == [i \in 1..len |-> (start + step * (i - 1)) % 256]

BytePatterns == {<<0, 0>>, <<165, 1>>, <<255, 7>>}

ByteInputs == {Bytes(len, pat[1], pat[2]) : len \in 0..MaxBytes, pat \in BytePatterns}

InitKey ==
    /\ envp = <<>> /\ ini_files = <<>> /\ tpm_files = <<>> /\ nedits = 0
    /\ ret = NoCall
    /\ keyA = None /\ keyB = None /\ rec = None /\ stored = <<>>

\* SymmKey::try_from(v); the caller keeps a key that was made as its first or
\* its second key.
CallTryFrom(v, slot) ==
    /\ Idle
    /\ LET res == SymmKey_try_from(v)
       IN  /\ ret' = [op |-> "try_from", input |-> v, res |-> res]
           /\ keyA' = IF res.ok /\ slot = 1 THEN Some(res.val) ELSE keyA
           /\ keyB' = IF res.ok /\ slot = 2 THEN Some(res.val) ELSE keyB
    /\ UNCHANGED <<envp, ini_files, tpm_files, nedits, rec, stored>>

\* keyA.xor(&keyB): both operands are borrowed immutably.
CallXor ==
    /\ Idle
    /\ IsSome(keyA) /\ IsSome(keyB)
    /\ ret' = [op |-> "xor", res |-> SymmKey_xor(Unwrap(keyA), Unwrap(keyB))]
    /\ UNCHANGED <<envp, ini_files, tpm_files, nedits, keyA, keyB, rec, stored>>

NextKey ==
    \/ \E v \in ByteInputs : \E slot \in {1, 2} : CallTryFrom(v, slot)
    \/ CallXor
    \/ Return

SpecKey == InitKey /\ [][NextKey]_vars

(***************************************************************************)
(* TpmData as a state machine: records are made, stored, loaded and        *)
(* checked, and the files are also written by others                       *)
(***************************************************************************)
MaxBlob == 1

\* A saved context of n bytes.
Blob(n) == [i \in 1..n |-> (7 + 193 * i) % 256]

Records ==
    {TpmData(h, sg, Blob(n)) : h \in HashAlgorithms, sg \in SignAlgorithms, n \in 0..MaxBlob}

StorePaths == {Path_join(WORK_DIR, TPM_DATA), Path_join(V_DirTmp, TPM_DATA)}

NothingStored == [rec |-> None, over |-> FALSE]

InitTpm ==
    /\ envp = <<>> /\ ini_files = <<>> /\ nedits = 0
    /\ tpm_files = [p \in StorePaths |-> NoFile]
    /\ ret = NoCall
    /\ keyA = None /\ keyB = None
    /\ rec = None
    /\ stored = [p \in StorePaths |-> NothingStored]

\* The agent creates an identity key: the caller holds a new record.
NewRecord(r) ==
    /\ Idle
    /\ rec' = Some(r)
    /\ UNCHANGED <<envp, ini_files, tpm_files, nedits, ret, keyA, keyB, stored>>

\* rec.store(path), the disk accepting all of the document or failing
\* `short` tokens before its end.
CallStore(path, short) ==
    /\ Idle
    /\ IsSome(rec)
    /\ LET doc == TpmData_serialize(Unwrap(rec))
           out == TpmData_store(tpm_files, Unwrap(rec), path,
                                IF short = 0 THEN Len(doc)
                                ELSE IF short = 1 THEN Len(doc) - 1 ELSE 0)
       IN  /\ tpm_files' = out.files
           /\ ret' = [op |-> "store", path |-> path, res |-> out.res]
           /\ stored' = [stored EXCEPT ![path] =
                            IF out.res.ok
                            THEN [rec |-> rec, over |-> IsSome(@.rec) /\ @.rec # rec]
                            ELSE IF out.files = tpm_files THEN @
                            ELSE NothingStored]
    /\ UNCHANGED <<envp, ini_files, nedits, keyA, keyB, rec>>

\* TpmData::load(path)
CallLoad(path) ==
    /\ Idle
    /\ ret' = [op |-> "load", path |-> path, res |-> TpmData_load(tpm_files, path)]
    /\ UNCHANGED <<envp, ini_files, tpm_files, nedits, keyA, keyB, rec, stored>>

\* rec.valid(hash_alg, sign_alg)
CallValid(hash_alg, sign_alg) ==
    /\ Idle
    /\ IsSome(rec)
    /\ ret' = [op |-> "valid", hash_alg |-> hash_alg, sign_alg |-> sign_alg,
               res |-> TpmData_valid(Unwrap(rec), hash_alg, sign_alg)]
    /\ UNCHANGED <<envp, ini_files, tpm_files, nedits, keyA, keyB, rec, stored>>

\* Somebody else writes the file, removes it or takes the permission away.
Damage(path, file) ==
    /\ Idle
    /\ tpm_files' = [tpm_files EXCEPT ![path] = file]
    /\ stored' = [stored EXCEPT ![path] = NothingStored]
    /\ UNCHANGED <<envp, ini_files, nedits, ret, keyA, keyB, rec>>

NextTpm ==
    \/ \E r \in Records : NewRecord(r)
    \/ \E path \in StorePaths : \E short \in {0, 1, 2} : CallStore(path, short)
    \/ \E path \in StorePaths : CallLoad(path)
    \/ \E h \in HashAlgorithms : \E sg \in SignAlgorithms : CallValid(h, sg)
    \/ \E path \in StorePaths :
          \E file \in {NoFile, TpmFile(Garbage, TRUE), TpmFile(Garbage, FALSE)} :
             Damage(path, file)
    \/ Return

SpecTpm == InitTpm /\ [][NextTpm]_vars

(***************************************************************************)
(* What the claims are stated with                                         *)
(***************************************************************************)
\* An environment variable counts as set when it holds a non-empty string.
EnvSet(name) == IsSome(envp[name]) /\ Unwrap(envp[name]) # <<>>

\* The configuration file in force, and what it holds under (section, key).
ConfPathInForce == IF EnvSet("KEYLIME_CONFIG") THEN Unwrap(envp["KEYLIME_CONFIG"]) ELSE DEFAULT_CONFIG
ConfInForce == FileAt(ini_files, ConfPathInForce)
HasSection(section) == ConfInForce.exists /\ section \in ConfInForce.sections
InFile(section, key) ==
    IF HasSection(section) THEN ConfInForce.kv[<<section, key>>] ELSE None

\* v spells word in some mix of upper and lower case.
Spells(v, word) ==
    /\ Len(v) = Len(word)
    /\ \A i \in 1..Len(v) : v[i] = word[i] \/ v[i] = char_to_uppercase(word[i])
IsBoolText(v) == Spells(v, S_true) \/ Spells(v, S_false)
Malformed(section, key) ==
    IsSome(InFile(section, key)) /\ ~IsBoolText(Unwrap(InFile(section, key)))

Built == ret.op = "build" /\ ret.res.ok
Snapshot == ret.res.val

C2_FileWhenEnvUnsetOrEmpty ==
    ret.op = "config_get_env" /\ ~EnvSet(ret.env) =>
        IF ~ConfInForce.exists THEN ~ret.res.ok
        ELSE IF ~HasSection(ret.section)
        THEN /\ ~ret.res.ok
             /\ ret.res.err = [kind |-> "Configuration", what |-> "section",
                               name |-> ret.section, file |-> ConfPathInForce]
        ELSE IF InFile(ret.section, ret.key) = None
        THEN /\ ~ret.res.ok
             /\ ret.res.err = [kind |-> "Configuration", what |-> "key",
                               name |-> ret.key, file |-> ConfPathInForce]
        ELSE ret.res = Ok(Unwrap(InFile(ret.section, ret.key)))

\* The variable is set but empty, KEYLIME_CONFIG names the legacy file, and
\* that file has no such key.
C2_Witness ==
    /\ ret.op = "config_get_env"
    /\ envp[ret.env] = Some(V_Empty)
    /\ ConfPathInForce = V_TestingConf
    /\ HasSection(ret.section)
    /\ InFile(ret.section, ret.key) = None
    /\ ~ret.res.ok /\ ret.res.err.kind = "Configuration"

(***************************************************************************)
(* C3 as claimed: in build every setting with a default takes the default  *)
(* when its key is not found, and every boolean one among them makes build *)
(* fail when its value is present but is not true or false.                *)
(***************************************************************************)
DefaultsWhenAbsent ==
    Built =>
        /\ ~EnvSet("KEYLIME_DIR") /\ InFile("cloud_agent", "keylime_dir") = None
              => Snapshot.work_dir = WORK_DIR
        /\ InFile("cloud_agent", "revocation_actions") = None
              => Snapshot.revocation_actions = REV_ACTIONS
        /\ InFile("cloud_agent", "revocation_actions_dir") = None
              => Snapshot.revocation_actions_dir = REV_ACTIONS_DIR
        /\ InFile("cloud_agent", "allow_payload_revocation_actions") = None
              => Snapshot.allow_payload_revocation_actions = TRUE
        /\ InFile("cloud_agent", "mtls_cert_enabled") = None
              => Snapshot.mtls_enabled = TRUE
        /\ InFile("cloud_agent", "enable_insecure_payload") = None
              => Snapshot.enable_insecure_payload = FALSE

BoolOf(v) == Spells(v, S_true)

C4_ListenNotifications ==
    LET current == InFile("cloud_agent", "listen_notifications")
        misspelled == InFile("cloud_agent", "listen_notfications")
    IN  /\ Built /\ IsSome(current)
              => Snapshot.run_revocation = BoolOf(Unwrap(current))
        /\ ret.op = "build" /\ Malformed("cloud_agent", "listen_notifications")
              => ~ret.res.ok
        /\ Built /\ current = None
              => IsSome(misspelled) /\ Snapshot.run_revocation = BoolOf(Unwrap(misspelled))
        /\ ret.op = "build" /\ current = None /\ misspelled = None
              => ~ret.res.ok
        /\ ret.op = "build" /\ ~ret.res.ok /\ ret.res.err.kind = "Configuration"
              /\ ret.res.err.what = "key"
              /\ ret.res.err.name \in {"listen_notifications", "listen_notfications"}
              => /\ current = None /\ misspelled = None
                 /\ ret.res.err.name = "listen_notfications"

\* Only the misspelled key is in the file and build took its value.
C4_Witness ==
    /\ Built
    /\ InFile("cloud_agent", "listen_notifications") = None
    /\ InFile("cloud_agent", "listen_notfications") = Some(V_True)
    /\ Snapshot.run_revocation = TRUE

(***************************************************************************)
(* C8: build looks for the identity record in the file tpmdata.json of the *)
(* working directory it resolved, and tpm_data_path is that path; tpm_data *)
(* is Some(record) exactly when that file exists, can be opened and holds  *)
(* a well-formed record, and None otherwise; build never fails on account  *)
(* of that file.                                                           *)
(***************************************************************************)
\* The path of the file `name` in the directory dir.
InDir(dir, name) ==
    IF dir = <<>> THEN name
    ELSE IF dir[Len(dir)] = "/" THEN dir \o name
    ELSE dir \o <<"/">> \o name

KnownRecords == {Record1, Record2}

C8_IdentityRecordIsOptional ==
    /\ Built =>
        LET file == FileAt(tpm_files, InDir(Snapshot.work_dir, TPM_DATA))
            holds(r) == file.exists /\ file.access /\ file.data = TpmData_serialize(r)
        IN  /\ Snapshot.tpm_data_path = InDir(Snapshot.work_dir, TPM_DATA)
            /\ \A r \in KnownRecords : holds(r) <=> Snapshot.tpm_data = Some(r)
            /\ (~\E r \in KnownRecords : holds(r)) => Snapshot.tpm_data = None
    /\ ret.op = "build" /\ ~ret.res.ok => ret.res.err.kind \notin {"Io", "Json"}

\* build went through although the file in the working directory taken from
\* KEYLIME_DIR does not hold a record.
C8_Witness ==
    /\ Built
    /\ EnvSet("KEYLIME_DIR")
    /\ Snapshot.work_dir = V_DirSlash
    /\ Snapshot.tpm_data_path = <<"/", "o", "p", "t", "/", "k", "l", "/", "t", "p", "m", "d", "a", "t", "a", ".", "j", "s", "o", "n">>
    /\ FileAt(tpm_files, Snapshot.tpm_data_path).exists
    /\ Snapshot.tpm_data = None

(***************************************************************************)
(* C5: get_uuid always returns a string: "openstack" and "hash_ek" come    *)
(* back unchanged; an input that is a UUID in any letter case comes back   *)
(* as the same UUID, hyphenated and in lower case; "generate" and every    *)
(* input that is no UUID give a well-formed lower-case version-4 UUID made *)
(* of the random bits alone.                                               *)
(***************************************************************************)
\* s is the hyphenated form of a UUID, in any letter case.
IsHyphenated(s) ==
    /\ Len(s) = 36
    /\ \A i \in 1..36 : IF i \in {9, 14, 19, 24} THEN s[i] = "-" ELSE IsHex(s[i])
\* s is 32 hexadecimal digits.
IsSimple(s) == Len(s) = 32 /\ \A i \in 1..32 : IsHex(s[i])
IsUrn(s) == Len(s) = 45 /\ SubSeq(s, 1, 9) = UrnPrefix /\ IsHyphenated(SubSeq(s, 10, 45))
IsUuidText(s) == IsHyphenated(s) \/ IsSimple(s) \/ IsUrn(s)
IsCanonical(s) == IsHyphenated(s) /\ \A i \in 1..36 : ~Occurs(UpperLetters, s[i])
WithoutHyphens(s) == SelectSeq(s, LAMBDA c : c # "-")

\* s is the canonical text of the version-4 UUID made of the random bits.
MadeOf(s, random) ==
    /\ IsCanonical(s)
    /\ LET digits == WithoutHyphens(s)
       IN  \A i \in 1..32 :
              IF i = 13 THEN digits[i] = "4"
              ELSE IF i = 17 THEN digits[i] \in {"8", "9", "a", "b"}
              ELSE digits[i] = HexLower[random[i] + 1]

V_UuidLower == <<"d", "4", "3", "2", "f", "b", "b", "3", "-", "d", "2", "f", "1", "-", "4", "a", "9", "7", "-", "9", "e", "f", "7", "-", "7", "5", "b", "d", "8", "1", "c", "0", "0", "0", "0", "0">>

C5_GetUuid ==
    ret.op = "get_uuid" =>
        /\ ret.input = S_openstack => ret.res = S_openstack
        /\ ret.input = S_hash_ek => ret.res = S_hash_ek
        /\ ret.input = V_UuidUpper => ret.res = V_UuidLower
        /\ IsHyphenated(ret.input) => ret.res = to_lowercase(ret.input)
        /\ IsSimple(ret.input)
              => IsCanonical(ret.res) /\ WithoutHyphens(ret.res) = to_lowercase(ret.input)
        /\ IsUrn(ret.input) => ret.res = to_lowercase(SubSeq(ret.input, 10, 45))
        /\ ret.input \notin {S_openstack, S_hash_ek} /\ ~IsUuidText(ret.input)
              => MadeOf(ret.res, ret.random)

\* A malformed UUID was replaced by a well-formed one.
C5_Witness ==
    /\ ret.op = "get_uuid"
    /\ ret.input = V_UuidBad
    /\ IsCanonical(ret.res)
    /\ ret.res # to_lowercase(ret.input)

(***************************************************************************)
(* C6: xor of two keys fails when their lengths differ; otherwise it gives *)
(* a key of that length whose every byte is the exclusive-or, bit by bit,  *)
(* of the operands' bytes; the call leaves both operands as they were.     *)
(***************************************************************************)
Bit(x, k) == (x \div (2 ^ k)) % 2

C6_XorResult ==
    ret.op = "xor" =>
        LET a == Unwrap(keyA).bytes
            b == Unwrap(keyB).bytes
        IN  IF Len(a) # Len(b) THEN ~ret.res.ok
            ELSE /\ ret.res.ok
                 /\ Len(ret.res.val.bytes) = Len(a)
                 /\ \A i \in 1..Len(a) : \A k \in 0..7 :
                       Bit(ret.res.val.bytes[i], k) = (Bit(a[i], k) + Bit(b[i], k)) % 2

C6_Xor == []C6_XorResult /\ [][ret'.op = "xor" => keyA' = keyA /\ keyB' = keyB]_vars

\* Two different keys of 32 bytes were combined.
C6_Witness ==
    /\ ret.op = "xor"
    /\ ret.res.ok
    /\ Len(ret.res.val.bytes) = 32
    /\ keyA # keyB
    /\ ret.res.val.bytes[1] = 90 /\ ret.res.val.bytes[2] = 160

(***************************************************************************)
(* C7: a SymmKey is made from a byte sequence exactly when its length is   *)
(* 16 or 32, and then holds those bytes; for every other length there is   *)
(* an error that reports the length, and the caller gets no key.           *)
(***************************************************************************)
C7_TryFromResult ==
    ret.op = "try_from" =>
        IF Len(ret.input) \in {16, 32}
        THEN ret.res.ok /\ ret.res.val.bytes = ret.input
        ELSE ~ret.res.ok /\ ret.res.err.kind = "KeyLength" /\ ret.res.err.len = Len(ret.input)

C7_TryFrom ==
    /\ []C7_TryFromResult
    /\ [][ret'.op = "try_from" /\ ~ret'.res.ok => keyA' = keyA /\ keyB' = keyB]_vars
    /\ [](\A key \in {keyA, keyB} : IsSome(key) => Len(Unwrap(key).bytes) \in {16, 32})

\* Seventeen bytes were refused.
C7_Witness ==
    /\ ret.op = "try_from"
    /\ Len(ret.input) = 17
    /\ ~ret.res.ok
    /\ ret.res.err.len = 17

(***************************************************************************)
(* C9: valid says true exactly when both algorithms are those of the       *)
(* record, and the call changes neither the record nor a file.             *)
(***************************************************************************)
C9_ValidResult ==
    ret.op = "valid" =>
        LET r == Unwrap(rec)
        IN  /\ ret.hash_alg = r.ak_hash_alg /\ ret.sign_alg = r.ak_sign_alg => ret.res = TRUE
            /\ ret.hash_alg # r.ak_hash_alg => ret.res = FALSE
            /\ ret.sign_alg # r.ak_sign_alg => ret.res = FALSE

C9_Valid ==
    /\ []C9_ValidResult
    /\ [][ret'.op = "valid" => rec' = rec /\ tpm_files' = tpm_files]_vars

\* Only the signing algorithm differed.
C9_Witness ==
    /\ ret.op = "valid"
    /\ ret.hash_alg = Unwrap(rec).ak_hash_alg
    /\ ret.sign_alg # Unwrap(rec).ak_sign_alg
    /\ ret.res = FALSE

(***************************************************************************)
(* C10: a load from a path whose last write was a successful store of a    *)
(* record gives that record, with its algorithms and its context, also     *)
(* when that store replaced another record there.                          *)
(***************************************************************************)
C10_StoreThenLoad ==
    ret.op = "load" /\ IsSome(stored[ret.path].rec) =>
        /\ ret.res.ok
        /\ ret.res.val.ak_hash_alg = Unwrap(stored[ret.path].rec).ak_hash_alg
        /\ ret.res.val.ak_sign_alg = Unwrap(stored[ret.path].rec).ak_sign_alg
        /\ ret.res.val.ak_context = Unwrap(stored[ret.path].rec).ak_context

\* The record loaded is the second of two stored at the path.
C10_Witness ==
    /\ ret.op = "load"
    /\ stored[ret.path].over
    /\ ret.res = Ok(Unwrap(stored[ret.path].rec))


(***************************************************************************)
(* C11: when build succeeds and the configured keylime_ca is exactly the   *)
(* string "default", keylime_ca_path is cv_ca/cacert.crt in the working    *)
(* directory of that same build (KEYLIME_DIR when set and non-empty, else  *)
(* the file's keylime_dir, else /var/lib/keylime); for every other         *)
(* configured string, "Default" included, keylime_ca_path is that string.  *)
(***************************************************************************)
\* The working directory a build resolves in the current environment.
WorkDirInForce ==
    IF EnvSet("KEYLIME_DIR") THEN Unwrap(envp["KEYLIME_DIR"])
    ELSE IF IsSome(InFile("cloud_agent", "keylime_dir"))
         THEN Unwrap(InFile("cloud_agent", "keylime_dir"))
    ELSE WORK_DIR

C11_KeylimeCaSentinel ==
    Built =>
        LET configured == InFile("cloud_agent", "keylime_ca")
        IN  /\ IsSome(configured)
            /\ Snapshot.work_dir = WorkDirInForce
            /\ Unwrap(configured) = S_default
                  => Snapshot.keylime_ca_path = InDir(WorkDirInForce, DEFAULT_CA_PATH)
            /\ Unwrap(configured) # S_default
                  => Snapshot.keylime_ca_path = Unwrap(configured)

\* keylime_ca is "default" and the working directory comes from KEYLIME_DIR.
C11_Witness ==
    /\ Built
    /\ InFile("cloud_agent", "keylime_ca") = Some(S_default)
    /\ EnvSet("KEYLIME_DIR")
    /\ Snapshot.keylime_ca_path =
          <<"/", "o", "p", "t", "/", "k", "l", "/", "c", "v", "_", "c", "a", "/",
            "c", "a", "c", "e", "r", "t", ".", "c", "r", "t">>

\* keylime_ca is "Default": the string passes through unchanged.
C11_WitnessPassThrough ==
    /\ Built
    /\ InFile("cloud_agent", "keylime_ca") = Some(V_CaDefaultCaps)
    /\ Snapshot.keylime_ca_path = V_CaDefaultCaps

====
